---- MODULE Spec2Model ----
(***************************************************************************)
(* Model of the messaging layer of lib-common (package kafka):            *)
(*   - Consumer.Consume, the fetch / handle / commit loop;                *)
(*   - Producer.getWriter / Publish / Close, the per-topic writer cache.  *)
(* The broker client (kafka-go Reader and Writer) is the environment: a   *)
(* partition log with a fetch position and a committed position, and      *)
(* writers whose sends succeed or fail.                                   *)
(***************************************************************************)
EXTENDS Integers, Sequences, FiniteSets

(* ------------------------------ bounds -------------------------------- *)

\* Number of messages in the partition log (offsets 1..LogLen).
LogLen == 3

\* Number of successful FetchMessage returns that are explored.
MaxFetches == 4

\* Number of goroutines that call Publish on the one Producer.
NumCallers == 2

\* Number of Publish calls that are explored, over all callers.
MaxPublishes == 2

\* Largest RetryConfig.MaxRetries that is explored.
MaxRetriesBound == 2

\* Largest maxRequests the rate limiter is configured with.
MaxLimit == 2

\* Number of requests the rate limiter serves, over all client IPs.
MaxServed == 4

\* Last instant of the rate limiter's clock.
MaxClock == 3

(* ------------------------------ state --------------------------------- *)

VARIABLES
    pc,          \* position of Consume: "select", "fetch", "handle", "commit", "returned"
    ctxErr,      \* ctx.Err(): "nil" while the context is live, else the cancellation reason
    cancelAt,    \* where Consume was when the context was cancelled ("none" before)
    fetchPos,    \* reader: offset the next FetchMessage hands out
    committed,   \* broker: committed position of the group (first offset not acknowledged)
    msg,         \* msg of the current iteration (its offset; 0 before the first fetch)
    deliveries,  \* one record per fetched message: offset, handler outcome, commit calls
    ret,         \* value returned by Consume ("none" while it runs)
    fetchErr,    \* err of the latest FetchMessage ("none" before the first, "nil" on success)
    writers,     \* Producer.writers: topic -> writer (NoWriter while the topic has no entry)
    writerTopic, \* the kafka.Writer objects created so far: writerTopic[w] is w.Topic
    closedW,     \* writers on which Close() was called
    call,        \* per calling goroutine: its Publish call (position, arguments, locals, result)
    started,     \* number of Publish calls started so far
    closer,      \* the goroutine calling Producer.Close: position, range state, result
    crashed,     \* the Go runtime threw on a detected concurrent map access
    codec,       \* one use of the CloudEvent codec: inputs, event, wire bytes, results
    retry,       \* one WithRetry call: config, loop state, invocations of fn, result
    limiter      \* one RateLimitMiddleware: config, mutex, visitors, clock, requests

consumerVars ==
    <<pc, ctxErr, cancelAt, fetchPos, committed, msg, deliveries, ret, fetchErr>>

producerVars == <<writers, writerTopic, closedW, call, started, closer, crashed>>

vars == <<consumerVars, producerVars, codec, retry, limiter>>

\* What a step of Consume leaves alone, and what a step of the Producer does.
notConsumer == <<producerVars, codec, retry, limiter>>

notProducer == <<consumerVars, codec, retry, limiter>>

notCodec == <<consumerVars, producerVars, retry, limiter>>

notRetry == <<consumerVars, producerVars, codec, limiter>>

notLimiter == <<consumerVars, producerVars, codec, retry>>

Offsets == 1..LogLen

\* Reasons a context reports once it is done (context.Canceled, context.DeadlineExceeded).
CtxReasons == {"Canceled", "DeadlineExceeded"}

\* A fetch failure that is not the context's (network, broker).
TransientErr == "transient"

cur == Len(deliveries)

Max(a, b) == IF a > b THEN a ELSE b

(* --------------------------- Consumer.Consume -------------------------- *)

ConsumerInit ==
    /\ pc = "select"
    /\ ctxErr = "nil"
    /\ cancelAt = "none"
    /\ fetchPos = 1
    /\ committed = 1
    /\ msg = 0
    /\ deliveries = <<>>
    /\ ret = "none"
    /\ fetchErr = "none"

\* select { case <-ctx.Done(): return ctx.Err() ... }
SelectDone ==
    /\ pc = "select"
    /\ ctxErr /= "nil"
    /\ pc' = "returned"
    /\ ret' = ctxErr
    /\ UNCHANGED <<ctxErr, cancelAt, fetchPos, committed, msg, deliveries, fetchErr, notConsumer>>

\* select { ... default: } : taken only when ctx.Done() is not ready.
SelectDefault ==
    /\ pc = "select"
    /\ ctxErr = "nil"
    /\ pc' = "fetch"
    /\ UNCHANGED <<ctxErr, cancelAt, fetchPos, committed, msg, deliveries, ret, fetchErr, notConsumer>>

\* Variant: the handler is skipped and the next message is fetched.
AfterFetchOkMutant == "fetch"

\* Where Consume goes with a fetched message: to the handler.
AfterFetchOk == "handle"

\* msg, err := c.reader.FetchMessage(ctx) with err == nil: the reader hands
\* out the message at its fetch position and moves to the next offset.
FetchOk ==
    /\ pc = "fetch"
    /\ fetchPos <= LogLen
    /\ cur < MaxFetches
    /\ msg' = fetchPos
    /\ fetchPos' = fetchPos + 1
    /\ deliveries' = Append(deliveries,
                            [off |-> fetchPos, handler |-> "pending", commits |-> 0])
    /\ pc' = AfterFetchOk
    /\ fetchErr' = "nil"
    /\ UNCHANGED <<ctxErr, cancelAt, committed, ret, notConsumer>>

\* Variant: the fetch error itself is returned when the context is done.
FetchErrReturnMutant(err) ==
    IF ctxErr /= "nil"
    THEN /\ pc' = "returned"
         /\ ret' = err
    ELSE /\ pc' = "select"
         /\ ret' = ret

\* Variant: any fetch error ends Consume with that error.
FetchErrAlwaysReturnMutant(err) ==
    /\ pc' = "returned"
    /\ ret' = err

\* What Consume does with a fetch error err: return ctx.Err() when the
\* context is done, else log and continue.
FetchErrStep(err) ==
    IF ctxErr /= "nil"
    THEN /\ pc' = "returned"
         /\ ret' = ctxErr
    ELSE /\ pc' = "select"
         /\ ret' = ret

\* msg, err := c.reader.FetchMessage(ctx) with err != nil. The error is the
\* context's own once the context is done, or a transient one at any time.
FetchErr ==
    /\ pc = "fetch"
    /\ \E err \in {TransientErr} \cup (IF ctxErr /= "nil" THEN {ctxErr} ELSE {}) :
           FetchErrStep(err) /\ fetchErr' = err
    /\ UNCHANGED <<ctxErr, cancelAt, fetchPos, committed, msg, deliveries, notConsumer>>

\* handler(ctx, msg) returns nil: fall through to the commit.
HandleOk ==
    /\ pc = "handle"
    /\ deliveries' = [deliveries EXCEPT ![cur].handler = "ok"]
    /\ pc' = "commit"
    /\ UNCHANGED <<ctxErr, cancelAt, fetchPos, committed, msg, ret, fetchErr, notConsumer>>

\* Variant: no continue after a handler error, the commit follows.
AfterHandlerErrorMutant == "commit"

\* Variant: a handler error ends Consume.
AfterHandlerErrorReturnMutant == "returned"

\* Where Consume goes after the handler returned an error.
AfterHandlerError == "select"

\* handler(ctx, msg) returns an error: log and continue, no commit.
HandleFail ==
    /\ pc = "handle"
    /\ deliveries' = [deliveries EXCEPT ![cur].handler = "fail"]
    /\ pc' = AfterHandlerError
    /\ UNCHANGED <<ctxErr, cancelAt, fetchPos, committed, msg, ret, fetchErr, notConsumer>>

\* Broker side of CommitMessages(ctx, m): the committed position moves past m.
CommittedAfter(m) == Max(committed, m + 1)

\* c.reader.CommitMessages(ctx, msg) returns nil.
CommitOk ==
    /\ pc = "commit"
    /\ deliveries' = [deliveries EXCEPT ![cur].commits = @ + 1]
    /\ committed' = CommittedAfter(msg)
    /\ pc' = "select"
    /\ UNCHANGED <<ctxErr, cancelAt, fetchPos, msg, ret, fetchErr, notConsumer>>

\* Variant: a failed commit is tried again.
AfterCommitErrorMutant == "commit"

\* Variant: a commit error ends Consume.
AfterCommitErrorReturnMutant == "returned"

\* Where Consume goes after CommitMessages returned an error.
AfterCommitError == "select"

\* c.reader.CommitMessages(ctx, msg) returns an error: logged only.
CommitFail ==
    /\ pc = "commit"
    /\ deliveries' = [deliveries EXCEPT ![cur].commits = @ + 1]
    /\ pc' = AfterCommitError
    /\ UNCHANGED <<ctxErr, cancelAt, fetchPos, committed, msg, ret, fetchErr, notConsumer>>

\* The caller cancels ctx (or its deadline passes).
Cancel ==
    /\ ctxErr = "nil"
    /\ \E r \in CtxReasons : ctxErr' = r
    /\ cancelAt' = pc
    /\ UNCHANGED <<pc, fetchPos, committed, msg, deliveries, ret, fetchErr, notConsumer>>

\* Broker-level redelivery: the reader's fetch position falls back to the
\* committed position (group rebalance, reader reconnect).
Redeliver ==
    /\ pc /= "returned"
    /\ fetchPos > committed
    /\ fetchPos' = committed
    /\ UNCHANGED <<pc, ctxErr, cancelAt, committed, msg, deliveries, ret, fetchErr, notConsumer>>

ConsumeNext ==
    \/ SelectDone
    \/ SelectDefault
    \/ FetchOk
    \/ FetchErr
    \/ HandleOk
    \/ HandleFail
    \/ CommitOk
    \/ CommitFail
    \/ Cancel
    \/ Redeliver

(* ------------------------------ Producer ------------------------------ *)


Callers == 1..NumCallers

Topics == {"orders", "payments"}

\* Message keys passed to Publish.
Keys == {"123"}

\* The absent entry of the writers map.
NoWriter == 0

\* Errors of writer.WriteMessages on an open writer (broker acknowledgment,
\* transport), and its error on a closed writer (io.ErrClosedPipe).
SendErrors == {"ack", "transport"}

ClosedErr == "closed"

NilResult == [kind |-> "nil", topic |-> "", cause |-> "nil"]

NoResult == [kind |-> "none", topic |-> "", cause |-> "nil"]

\* fmt.Errorf("failed to marshal payload: %w", err)
MarshalError == [kind |-> "marshal", topic |-> "", cause |-> "unsupported"]

\* fmt.Errorf("failed to publish to %s: %w", topic, err)
PublishError(t, err) == [kind |-> "publish", topic |-> t, cause |-> err]

\* A goroutine outside Publish. During a call: the arguments topic and key,
\* the local writer, and the number of WriteMessages calls made, each of
\* them carrying the one message msg. After it: its topic, that number and
\* the value returned.
IdleCall == [pc |-> "idle", topic |-> "", key |-> "", w |-> NoWriter,
             attempts |-> 0, result |-> NoResult]

ProducerInit ==
    /\ writers = [t \in Topics |-> NoWriter]
    /\ writerTopic = <<>>
    /\ closedW = {}
    /\ call = [c \in Callers |-> IdleCall]
    /\ started = 0
    /\ closer = [pc |-> "idle", startKeys |-> {}, visited |-> {}, failed |-> {},
                 result |-> "none"]
    /\ crashed = FALSE

\* Variant: the marshal error is ignored and getWriter is entered.
AfterMarshalErrorMutant(t, k) == [IdleCall EXCEPT !.pc = "lookup", !.topic = t, !.key = k]

\* json.Marshal(payload) failed: Publish has returned the wrapped error.
AfterMarshalError(t, k) == [IdleCall EXCEPT !.topic = t, !.result = MarshalError]

\* Publish(ctx, topic, key, payload), up to the call of getWriter:
\* json.Marshal(payload) fails and Publish returns, or getWriter is entered.
PublishCall(c, t, k, marshals) ==
    /\ ~crashed
    /\ call[c].pc = "idle"
    /\ started < MaxPublishes
    /\ started' = started + 1
    /\ call' = [call EXCEPT ![c] =
                   IF marshals
                   THEN [IdleCall EXCEPT !.pc = "lookup", !.topic = t, !.key = k]
                   ELSE AfterMarshalError(t, k)]
    /\ UNCHANGED <<writers, writerTopic, closedW, closer, crashed, notProducer>>

\* The events handed to PublishEvent (their ID and Source fields).
Events == [ID : {"id-1", "id-2"}, Source : {"order-service"}]

\* Variant: the event is keyed by its source.
KeyOfEventMutant(e) == e.Source

\* The key PublishEvent passes to Publish.
KeyOfEvent(e) == e.ID

\* PublishEvent(ctx, topic, event): return p.Publish(ctx, topic, event.ID, event)
PublishEventCall(c, t, e, marshals) == PublishCall(c, t, KeyOfEvent(e), marshals)

\* Variant: the lookup never finds the entry.
ExistsMutant(t) == FALSE

\* w, exists := p.writers[topic]
Exists(t) == writers[t] /= NoWriter

\* getWriter, the lookup: return the entry, or go on to construct one.
Lookup(c) ==
    /\ ~crashed
    /\ call[c].pc = "lookup"
    /\ call' = [call EXCEPT ![c] =
                   IF Exists(call[c].topic)
                   THEN [@ EXCEPT !.pc = "send", !.w = writers[call[c].topic]]
                   ELSE [@ EXCEPT !.pc = "construct"]]
    /\ UNCHANGED <<writers, writerTopic, closedW, started, closer, crashed,
                   notProducer>>

\* Variant: every writer is constructed for one fixed topic.
NewWriterTopicMutant(t) == "orders"

\* The Topic field of the writer getWriter(t) constructs.
NewWriterTopic(t) == t

\* getWriter, w := &kafka.Writer{Topic: topic, ...}
Construct(c) ==
    /\ ~crashed
    /\ call[c].pc = "construct"
    /\ writerTopic' = Append(writerTopic, NewWriterTopic(call[c].topic))
    /\ call' = [call EXCEPT ![c].pc = "insert", ![c].w = Len(writerTopic) + 1]
    /\ UNCHANGED <<writers, closedW, started, closer, crashed, notProducer>>

\* getWriter, p.writers[topic] = w; return w
Insert(c) ==
    /\ ~crashed
    /\ call[c].pc = "insert"
    /\ writers' = [writers EXCEPT ![call[c].topic] = call[c].w]
    /\ call' = [call EXCEPT ![c].pc = "send"]
    /\ UNCHANGED <<writerTopic, closedW, started, closer, crashed, notProducer>>

\* The call record cl after one WriteMessages call that leads to position
\* to with result r: on return the locals key and w are gone.
Returned(cl, to, r) ==
    IF to = "idle"
    THEN [IdleCall EXCEPT !.topic = cl.topic, !.attempts = cl.attempts + 1, !.result = r]
    ELSE [cl EXCEPT !.pc = to, !.attempts = cl.attempts + 1, !.result = r]

\* The errors writer.WriteMessages can return on writer w.
SendErrorsOf(w) == IF w \in closedW THEN {ClosedErr} ELSE SendErrors

\* writer.WriteMessages(ctx, msg) returns nil: Publish returns nil.
SendOk(c) ==
    /\ ~crashed
    /\ call[c].pc = "send"
    /\ call[c].w \notin closedW
    /\ call' = [call EXCEPT ![c] = Returned(@, "idle", NilResult)]
    /\ UNCHANGED <<writers, writerTopic, closedW, started, closer, crashed, notProducer>>

\* Variant: a failed send evicts the topic's entry.
WritersAfterSendErrorMutant(t) == [writers EXCEPT ![t] = NoWriter]

\* The writers map after a failed send to topic t.
WritersAfterSendError(t) == writers

\* Variant: a failed send is tried again.
AfterSendErrorMutant == "send"

\* Where Publish goes after a failed send.
AfterSendError == "idle"

\* writer.WriteMessages(ctx, msg) returns err: log, return the wrapped error.
SendFail(c) ==
    /\ ~crashed
    /\ call[c].pc = "send"
    /\ \E err \in SendErrorsOf(call[c].w) :
           call' = [call EXCEPT ![c] =
                       Returned(@, AfterSendError, PublishError(call[c].topic, err))]
    /\ writers' = WritersAfterSendError(call[c].topic)
    /\ UNCHANGED <<writerTopic, closedW, started, closer, crashed, notProducer>>

\* The topics that have an entry in p.writers.
Entries == {t \in Topics : writers[t] /= NoWriter}

\* Close(), entering: for topic, w := range p.writers
CloseBegin ==
    /\ ~crashed
    /\ closer.pc = "idle"
    /\ closer' = [closer EXCEPT !.pc = "ranging", !.startKeys = Entries]
    /\ UNCHANGED <<writers, writerTopic, closedW, call, started, crashed,
                   notProducer>>

\* Variant: the first failing w.Close() ends Close with that error.
AfterCloseErrorMutant(cl, t) ==
    [cl EXCEPT !.pc = "returned", !.visited = @ \cup {t}, !.failed = @ \cup {t},
               !.result = "error"]

\* The closing goroutine after w.Close() failed on the writer of topic t:
\* the error is logged and the range goes on.
AfterCloseError(cl, t) ==
    [cl EXCEPT !.visited = @ \cup {t}, !.failed = @ \cup {t}]

\* Close(), one iteration of the range: w.Close() succeeds, or fails and is logged.
CloseWriter(t, ok) ==
    /\ ~crashed
    /\ closer.pc = "ranging"
    /\ t \in Entries \ closer.visited
    /\ closedW' = closedW \cup {writers[t]}
    /\ closer' = IF ok
                 THEN [closer EXCEPT !.visited = @ \cup {t}]
                 ELSE AfterCloseError(closer, t)
    /\ UNCHANGED <<writers, writerTopic, call, started, crashed, notProducer>>

\* Close(), the range is over (an entry inserted during the range may or
\* may not have been visited): return nil
CloseReturn ==
    /\ ~crashed
    /\ closer.pc = "ranging"
    /\ closer.startKeys \subseteq closer.visited
    /\ closer' = [closer EXCEPT !.pc = "returned", !.result = "nil"]
    /\ UNCHANGED <<writers, writerTopic, closedW, call, started, crashed,
                   notProducer>>

\* Goroutine c stands at a read of p.writers, or at a write of it.
ReadsMap(c) == call[c].pc = "lookup"

WritesMap(c) == call[c].pc = "insert"

\* Two goroutines stand at accesses of p.writers, one of them the insert,
\* with nothing ordering them: the accesses can overlap.
ConcurrentMapAccess ==
    \/ \E c, d \in Callers :
           c /= d /\ WritesMap(c) /\ (ReadsMap(d) \/ WritesMap(d))
    \/ \E c \in Callers : WritesMap(c) /\ closer.pc = "ranging"

\* The Go runtime detects the overlapping map accesses and throws
\* ("fatal error: concurrent map writes"); otherwise they take effect in
\* some order, which Lookup, Insert and CloseWriter give.
Throw ==
    /\ ~crashed
    /\ ConcurrentMapAccess
    /\ crashed' = TRUE
    /\ UNCHANGED <<writers, writerTopic, closedW, call, started, closer,
                   notProducer>>

\* No call of the Producer is in progress.
Quiet == (\A c \in Callers : call[c].pc = "idle") /\ closer.pc /= "ranging"

PublishNext ==
    \/ \E c \in Callers, t \in Topics, k \in Keys, marshals \in BOOLEAN :
           PublishCall(c, t, k, marshals)
    \/ \E c \in Callers : Lookup(c)
    \/ \E c \in Callers : Construct(c)
    \/ \E c \in Callers : Insert(c)
    \/ \E c \in Callers : SendOk(c)
    \/ \E c \in Callers : SendFail(c)
    \/ CloseBegin
    \/ \E t \in Topics, ok \in BOOLEAN : CloseWriter(t, ok)
    \/ CloseReturn
    \/ Throw

\* The same Producer with its calls made one after the other.
SequentialNext ==
    \/ \E c \in Callers, t \in Topics, k \in Keys, marshals \in BOOLEAN :
           Quiet /\ PublishCall(c, t, k, marshals)
    \/ \E c \in Callers : Lookup(c)
    \/ \E c \in Callers : Construct(c)
    \/ \E c \in Callers : Insert(c)
    \/ \E c \in Callers : SendOk(c)
    \/ \E c \in Callers : SendFail(c)
    \/ Quiet /\ CloseBegin
    \/ \E t \in Topics, ok \in BOOLEAN : CloseWriter(t, ok)
    \/ CloseReturn

\* The Producer with non-overlapping calls of Publish, PublishEvent and Close.
EventNext ==
    \/ \E c \in Callers, t \in Topics, e \in Events, marshals \in BOOLEAN :
           Quiet /\ PublishEventCall(c, t, e, marshals)
    \/ SequentialNext

(* ----------------------------- CloudEvent ------------------------------ *)

\* A Go string holding bytes that are not valid UTF-8, and what
\* encoding/json writes in their place (U+FFFD).
BadUtf8 == "bytes:ff"

Replacement == "U+FFFD"

\* JSON texts: kind of the value, its content, and whether the text
\* carries insignificant whitespace. Absent is a field the document lacks.
JText(k, v) == [k |-> k, v |-> v, ws |-> FALSE]

Absent == [k |-> "absent", v |-> "", ws |-> FALSE]

\* A nil json.RawMessage.
NilRaw == [k |-> "nil", v |-> "", ws |-> FALSE]

\* Go values passed as data: a map, strings, an int, nil, a channel.
GoVal(t, v) == [t |-> t, v |-> v]

DataValues ==
    { GoVal("map", "orderId=123"), GoVal("string", "a<b"), GoVal("string", BadUtf8),
      GoVal("int", "7"), GoVal("any", "nil"), GoVal("chan", "") }

Sources == {"order-service", BadUtf8}

EventTypes == {"order.created", BadUtf8}

\* uuid.New().String()
Ids == {"id-1", "id-2"}

\* time.Now().UTC(), the zero time.Time, and a string that is no RFC 3339 time.
Now == "2026-01-01T00:00:00Z"

ZeroTime == "0001-01-01T00:00:00Z"

NotATime == "yesterday"

\* The target shapes ParseData is called with.
Shapes == {"map", "string", "int", "any"}

\* encoding/json writes a Go string as a JSON string, invalid UTF-8 replaced.
CoerceUtf8(str) == IF str = BadUtf8 THEN Replacement ELSE str

\* json.Marshal accepts the value.
Encodable(d) == d.t /= "chan"

\* Variant: the data is marshalled with indentation.
MarshalValueMutant(d) ==
    [k |-> (CASE d.t = "string" -> "string"
              [] d.t = "int" -> "number"
              [] d.t = "map" -> "object"
              [] OTHER -> "null"),
     v |-> (IF d.t = "string" THEN CoerceUtf8(d.v) ELSE IF d.t = "any" THEN "" ELSE d.v),
     ws |-> TRUE]

\* json.Marshal(d) for an encodable d: compact text.
MarshalValue(d) ==
    CASE d.t = "string" -> JText("string", CoerceUtf8(d.v))
      [] d.t = "int" -> JText("number", d.v)
      [] d.t = "map" -> JText("object", d.v)
      [] OTHER -> JText("null", "")

\* json.Unmarshal(raw, target) with a target of the given shape: the error
\* and the value the target holds afterwards.
UnmarshalInto(raw, shape) ==
    LET zero == IF shape = "any" THEN GoVal("any", "nil")
                ELSE IF shape = "int" THEN GoVal("int", "0")
                ELSE GoVal(shape, "")
        fits == \/ shape = "any"
                \/ shape = "string" /\ raw.k = "string"
                \/ shape = "int" /\ raw.k = "number"
                \/ shape = "map" /\ raw.k = "object"
    IN  IF raw.k \in {"nil", "absent"}
        THEN [err |-> "syntax", val |-> zero]
        ELSE IF raw.k = "null"
        THEN [err |-> "nil", val |-> zero]
        ELSE IF ~fits
        THEN [err |-> "type", val |-> zero]
        ELSE [err |-> "nil",
              val |-> IF shape = "any"
                      THEN GoVal(CASE raw.k = "string" -> "string"
                                   [] raw.k = "number" -> "float64"
                                   [] OTHER -> "map", raw.v)
                      ELSE GoVal(shape, raw.v)]

\* The zero CloudEvent{}.
ZeroEvent == [ID |-> "", Source |-> "", Type |-> "", Time |-> ZeroTime,
              DataContentType |-> "", Data |-> NilRaw]

\* The encoder compacts the text a json.Marshaler (RawMessage) returns.
Compact(raw) == [raw EXCEPT !.ws = FALSE]

\* json.Marshal(event): the wire document, one member per struct field.
MarshalEvent(e) ==
    [syntax |-> "ok",
     id |-> JText("string", CoerceUtf8(e.ID)),
     source |-> JText("string", CoerceUtf8(e.Source)),
     type |-> JText("string", CoerceUtf8(e.Type)),
     time |-> JText("string", e.Time),
     datacontenttype |-> JText("string", CoerceUtf8(e.DataContentType)),
     data |-> IF e.Data.k = "nil" THEN JText("null", "") ELSE Compact(e.Data)]

\* The documents a transport can hand to ParseCloudEvent: text that is not
\* JSON, or an object in which each member is absent, well typed or ill typed.
Documents ==
    [syntax : {"ok", "bad"},
     id : {Absent, JText("string", "id-1"), JText("number", "7")},
     source : {Absent, JText("string", "order-service"), JText("number", "7")},
     type : {Absent, JText("string", "order.created")},
     time : {Absent, JText("string", Now), JText("string", NotATime)},
     datacontenttype : {Absent, JText("string", "application/json")},
     data : {Absent, JText("object", "orderId=123"),
             [k |-> "object", v |-> "orderId=123", ws |-> TRUE]}]

\* json.Unmarshal of one member into a string field: absent and null leave
\* the zero value, any other kind than a string is an error.
StringFieldFails(m) == m.k \notin {"absent", "null", "string"}

StringField(m) == IF m.k = "string" THEN m.v ELSE ""

\* The same for the time.Time field (RFC 3339 is required of a string).
TimeFieldFails(m) ==
    \/ m.k \notin {"absent", "null", "string"}
    \/ m.k = "string" /\ m.v = NotATime

TimeField(m) == IF m.k = "string" THEN m.v ELSE ZeroTime

\* The same for the json.RawMessage field: the member's text as it stands.
RawField(m) == IF m.k = "absent" THEN NilRaw ELSE m

\* ParseCloudEvent(data): the error and the event returned.
ParseCloudEvent(doc) ==
    IF \/ doc.syntax = "bad"
       \/ StringFieldFails(doc.id)
       \/ StringFieldFails(doc.source)
       \/ StringFieldFails(doc.type)
       \/ TimeFieldFails(doc.time)
       \/ StringFieldFails(doc.datacontenttype)
    THEN [err |-> "parse", event |-> ZeroEvent]
    ELSE [err |-> "nil",
          event |-> [ID |-> StringField(doc.id),
                     Source |-> StringField(doc.source),
                     Type |-> StringField(doc.type),
                     Time |-> TimeField(doc.time),
                     DataContentType |-> StringField(doc.datacontenttype),
                     Data |-> RawField(doc.data)]]

NoDoc == [syntax |-> "none", id |-> Absent, source |-> Absent, type |-> Absent,
          time |-> Absent, datacontenttype |-> Absent, data |-> Absent]

NoParse == [err |-> "none", event |-> ZeroEvent]

NoOut == [err |-> "none", val |-> GoVal("any", "nil")]

CodecInit ==
    codec = [stage |-> "idle", source |-> "", type |-> "", data |-> GoVal("any", "nil"),
             err |-> "none", event |-> ZeroEvent, wire |-> NoDoc, parsed |-> NoParse,
             shape |-> "any", out |-> NoOut]

\* NewCloudEvent(source, eventType, data); id is the fresh uuid.
NewCloudEvent(source, eventType, data, id) ==
    /\ codec.stage = "idle"
    /\ codec' = IF ~Encodable(data)
                THEN [codec EXCEPT !.stage = "failed", !.source = source,
                                   !.type = eventType, !.data = data,
                                   !.err = "marshal"]
                ELSE [codec EXCEPT !.stage = "created", !.source = source,
                                   !.type = eventType, !.data = data, !.err = "nil",
                                   !.event = [ID |-> id,
                                              Source |-> source,
                                              Type |-> eventType,
                                              Time |-> Now,
                                              DataContentType |-> "application/json",
                                              Data |-> MarshalValue(data)]]
    /\ UNCHANGED notCodec

\* The created event is serialized (json.Marshal in Publish).
Serialize ==
    /\ codec.stage = "created"
    /\ codec' = [codec EXCEPT !.stage = "wire", !.wire = MarshalEvent(codec.event)]
    /\ UNCHANGED notCodec

\* Bytes arrive that this codec did not write.
Receive(doc) ==
    /\ codec.stage = "idle"
    /\ codec' = [codec EXCEPT !.stage = "wire", !.wire = doc]
    /\ UNCHANGED notCodec

\* ParseCloudEvent on the wire bytes.
Parse ==
    /\ codec.stage = "wire"
    /\ codec' = [codec EXCEPT !.stage = "parsed", !.parsed = ParseCloudEvent(codec.wire)]
    /\ UNCHANGED notCodec

\* event.ParseData(target) on the parsed event, target of the given shape.
ParseData(shape) ==
    /\ codec.stage = "parsed"
    /\ codec.parsed.err = "nil"
    /\ codec' = [codec EXCEPT !.stage = "extracted", !.shape = shape,
                              !.out = UnmarshalInto(codec.parsed.event.Data, shape)]
    /\ UNCHANGED notCodec

CodecNext ==
    \/ \E source \in Sources, eventType \in EventTypes, data \in DataValues, id \in Ids :
           NewCloudEvent(source, eventType, data, id)
    \/ Serialize
    \/ \E doc \in Documents : Receive(doc)
    \/ Parse
    \/ \E shape \in Shapes : ParseData(shape)

(* ------------------------------ WithRetry ------------------------------ *)

\* RetryConfig values: MaxRetries (negative ones too), BaseDelay, MaxDelay.
RetryConfigs ==
    [MaxRetries : -1..MaxRetriesBound, BaseDelay : {0, 1}, MaxDelay : {0, 2}]

\* Errors fn returns.
FnErrors == {"e1", "e2"}

RECURSIVE Pow2(_)
\* math.Pow(2, float64(attempt))
Pow2(n) == IF n <= 0 THEN 1 ELSE 2 * Pow2(n - 1)

\* delay := BaseDelay * 2^attempt, capped by MaxDelay.
Delay(config, attempt) ==
    LET d == config.BaseDelay * Pow2(attempt)
    IN  IF d > config.MaxDelay THEN config.MaxDelay ELSE d

RetryInit ==
    retry = [pc |-> "idle", config |-> [MaxRetries |-> 0, BaseDelay |-> 0, MaxDelay |-> 0],
             attempt |-> 0, lastErr |-> "nil", results |-> <<>>, ctxErr |-> "nil",
             woken |-> "none", cancelAt |-> "none", ret |-> "none"]

\* WithRetry(ctx, config, logger, operation, fn) is called: var lastErr
\* error; attempt := 0.
RetryStart(config) ==
    /\ retry.pc = "idle"
    /\ retry' = [retry EXCEPT !.pc = "loop", !.config = config]
    /\ UNCHANGED notRetry

\* for ...; attempt <= config.MaxRetries; ... : enter the body, or leave
\* the loop and return lastErr.
RetryLoopTest ==
    /\ retry.pc = "loop"
    /\ retry' = IF retry.attempt <= retry.config.MaxRetries
                THEN [retry EXCEPT !.pc = "call"]
                ELSE [retry EXCEPT !.pc = "returned", !.ret = retry.lastErr]
    /\ UNCHANGED notRetry

\* fn() returns nil: return nil.
RetryCallOk ==
    /\ retry.pc = "call"
    /\ retry' = [retry EXCEPT !.pc = "returned", !.ret = "nil",
                              !.results = Append(@, "ok")]
    /\ UNCHANGED notRetry

\* Which case of the select a parked WithRetry is woken with when the
\* context is cancelled.
WokenByCancelMutant == "none"

WokenByCancel == "done"

\* The case the select takes on entry: ctx.Done() when the context is
\* already done, the timer when the delay is not positive, either when
\* both are ready, none (parked) otherwise.
SelectOnEntry(delay) ==
    (IF retry.ctxErr /= "nil" THEN {WokenByCancel} ELSE {})
        \cup (IF delay <= 0 THEN {"timer"} ELSE {})
        \cup (IF retry.ctxErr = "nil" /\ delay > 0 THEN {"none"} ELSE {})

\* fn() returns err: lastErr = err; break on the last attempt (the loop is
\* left and lastErr returned), else compute the delay, log, enter the select.
RetryCallFail(err) ==
    /\ retry.pc = "call"
    /\ IF retry.attempt = retry.config.MaxRetries
       THEN retry' = [retry EXCEPT !.pc = "returned", !.lastErr = err, !.ret = err,
                                   !.results = Append(@, err)]
       ELSE \E w \in SelectOnEntry(Delay(retry.config, retry.attempt)) :
                retry' = [retry EXCEPT !.pc = "backoff", !.lastErr = err,
                                       !.results = Append(@, err), !.woken = w]
    /\ UNCHANGED notRetry

\* case <-ctx.Done(): return ctx.Err()
RetryBackoffDone ==
    /\ retry.pc = "backoff"
    /\ retry.woken = "done"
    /\ retry' = [retry EXCEPT !.pc = "returned", !.ret = retry.ctxErr, !.woken = "none"]
    /\ UNCHANGED notRetry

\* case <-time.After(delay): the next iteration, attempt++.
RetryBackoffElapsed ==
    /\ retry.pc = "backoff"
    /\ retry.woken = "timer"
    /\ retry' = [retry EXCEPT !.pc = "loop", !.attempt = @ + 1, !.woken = "none"]
    /\ UNCHANGED notRetry

\* The timer of time.After(delay) fires while WithRetry is parked.
RetryTimerFires ==
    /\ retry.pc = "backoff"
    /\ retry.woken = "none"
    /\ retry' = [retry EXCEPT !.woken = "timer"]
    /\ UNCHANGED notRetry

\* The caller cancels ctx; a WithRetry parked in the select is woken by it.
RetryCancel ==
    /\ retry.pc /= "idle"
    /\ retry.ctxErr = "nil"
    /\ \E r \in CtxReasons :
           retry' = [retry EXCEPT
                        !.ctxErr = r,
                        !.cancelAt = IF retry.pc = "backoff" /\ retry.woken = "none"
                                     THEN "waiting" ELSE retry.pc,
                        !.woken = IF retry.pc = "backoff" /\ retry.woken = "none"
                                  THEN WokenByCancel ELSE @]
    /\ UNCHANGED notRetry

RetryNext ==
    \/ \E config \in RetryConfigs : RetryStart(config)
    \/ RetryLoopTest
    \/ RetryCallOk
    \/ \E err \in FnErrors : RetryCallFail(err)
    \/ RetryBackoffDone
    \/ RetryBackoffElapsed
    \/ RetryTimerFires
    \/ RetryCancel

(* -------------------------- RateLimitMiddleware ------------------------ *)

\* Client IPs, and the goroutines that run the returned handler.
IPs == {"ip1", "ip2"}

Handlers == {"h1", "h2"}

\* Values of the window parameter, in clock ticks.
Windows == {1, 2}

\* visitors[ip] when the map has no entry for ip.
NoVisitor == [exists |-> FALSE, count |-> 0, lastSeen |-> 0]

IdleRequest == [pc |-> "idle", ip |-> "ip1"]

LimiterInit ==
    limiter = [started |-> FALSE, maxRequests |-> 0, window |-> 0,
               mu |-> "free", visitors |-> [ip \in IPs |-> NoVisitor],
               now |-> 0, cleanup |-> "sleep", sleepFrom |-> 0,
               req |-> [h \in Handlers |-> IdleRequest],
               served |-> 0, history |-> [ip \in IPs |-> <<>>]]

\* RateLimitMiddleware(maxRequests, window): the mutex, the empty map, the
\* cleanup goroutine started and sleeping.
RateLimitMiddleware(maxRequests, window) ==
    /\ ~limiter.started
    /\ limiter' = [limiter EXCEPT !.started = TRUE, !.maxRequests = maxRequests,
                                  !.window = window]
    /\ UNCHANGED notLimiter

\* Time passes.
Tick ==
    /\ limiter.started
    /\ limiter.now < MaxClock
    /\ limiter' = [limiter EXCEPT !.now = @ + 1]
    /\ UNCHANGED notLimiter

\* time.Since(t) > window
Expired(t) == limiter.now - t > limiter.window

\* A request from ip reaches the handler: ip := c.ClientIP().
Arrive(h, ip) ==
    /\ limiter.started
    /\ limiter.req[h].pc = "idle"
    /\ limiter.served < MaxServed
    /\ limiter' = [limiter EXCEPT !.req[h] = [pc |-> "lock", ip |-> ip],
                                  !.served = @ + 1]
    /\ UNCHANGED notLimiter

\* mu.Lock() returns when nobody holds the mutex.
CanLock == limiter.mu = "free"

\* mu.Lock() in the handler.
HandlerLock(h) ==
    /\ limiter.req[h].pc = "lock"
    /\ CanLock
    /\ limiter' = [limiter EXCEPT !.mu = h, !.req[h].pc = "lookup"]
    /\ UNCHANGED notLimiter

\* v, exists := visitors[ip]; if !exists ...; if time.Since(v.lastSeen) >
\* window ...: the branch is chosen.
LookupVisitor(h) ==
    LET v == limiter.visitors[limiter.req[h].ip]
    IN  /\ limiter.req[h].pc = "lookup"
        /\ limiter' = [limiter EXCEPT !.req[h].pc =
                          IF ~v.exists THEN "insert"
                          ELSE IF Expired(v.lastSeen) THEN "reset" ELSE "count"]
        /\ UNCHANGED notLimiter

\* The verdict on a request is recorded with the instant written to lastSeen.
Served(ip, passed) == Append(limiter.history[ip], [at |-> limiter.now, passed |-> passed])

\* visitors[ip] = &visitor{count: 1, lastSeen: time.Now()}; mu.Unlock()
InsertVisitor(h) ==
    LET ip == limiter.req[h].ip
    IN  /\ limiter.req[h].pc = "insert"
        /\ limiter' = [limiter EXCEPT
                          !.visitors[ip] = [exists |-> TRUE, count |-> 1, lastSeen |-> limiter.now],
                          !.mu = "free",
                          !.req[h].pc = "next",
                          !.history[ip] = Served(ip, TRUE)]
        /\ UNCHANGED notLimiter

\* v.count = 1; v.lastSeen = time.Now(); mu.Unlock()
Reset(h) ==
    LET ip == limiter.req[h].ip
    IN  /\ limiter.req[h].pc = "reset"
        /\ limiter' = [limiter EXCEPT
                          !.visitors[ip].count = 1,
                          !.visitors[ip].lastSeen = limiter.now,
                          !.mu = "free",
                          !.req[h].pc = "next",
                          !.history[ip] = Served(ip, TRUE)]
        /\ UNCHANGED notLimiter

\* v.count++; v.lastSeen = time.Now(); if v.count > maxRequests the
\* request is aborted, else passed on; mu.Unlock() on both paths.
Count(h) ==
    LET ip == limiter.req[h].ip
        count == limiter.visitors[ip].count + 1
    IN  /\ limiter.req[h].pc = "count"
        /\ limiter' = [limiter EXCEPT
                          !.visitors[ip].count = count,
                          !.visitors[ip].lastSeen = limiter.now,
                          !.mu = "free",
                          !.req[h].pc = IF count > limiter.maxRequests THEN "abort" ELSE "next",
                          !.history[ip] = Served(ip, ~(count > limiter.maxRequests))]
        /\ UNCHANGED notLimiter

\* c.Next(), or c.AbortWithStatusJSON(http.StatusTooManyRequests, ...);
\* the handler returns.
Respond(h) ==
    /\ limiter.req[h].pc \in {"next", "abort"}
    /\ limiter' = [limiter EXCEPT !.req[h] = IdleRequest]
    /\ UNCHANGED notLimiter

\* Cleanup goroutine: time.Sleep(window) is over; mu.Lock().
CleanupLock ==
    /\ limiter.started
    /\ limiter.cleanup = "sleep"
    /\ limiter.now - limiter.sleepFrom >= limiter.window
    /\ CanLock
    /\ limiter' = [limiter EXCEPT !.mu = "cleanup", !.cleanup = "sweep"]
    /\ UNCHANGED notLimiter

\* Cleanup goroutine: delete every entry with time.Since(v.lastSeen) >
\* window; mu.Unlock(); sleep again.
CleanupSweep ==
    /\ limiter.cleanup = "sweep"
    /\ limiter' = [limiter EXCEPT
                      !.visitors = [ip \in IPs |->
                                       IF @[ip].exists /\ Expired(@[ip].lastSeen)
                                       THEN NoVisitor ELSE @[ip]],
                      !.mu = "free",
                      !.cleanup = "sleep",
                      !.sleepFrom = limiter.now]
    /\ UNCHANGED notLimiter

RateLimitNext ==
    \/ \E maxRequests \in 0..MaxLimit, window \in Windows :
           RateLimitMiddleware(maxRequests, window)
    \/ Tick
    \/ \E h \in Handlers, ip \in IPs : Arrive(h, ip)
    \/ \E h \in Handlers : HandlerLock(h)
    \/ \E h \in Handlers : LookupVisitor(h)
    \/ \E h \in Handlers : InsertVisitor(h)
    \/ \E h \in Handlers : Reset(h)
    \/ \E h \in Handlers : Count(h)
    \/ \E h \in Handlers : Respond(h)
    \/ CleanupLock
    \/ CleanupSweep

(* --------------------------- specifications ---------------------------- *)

Init == ConsumerInit /\ ProducerInit /\ CodecInit /\ RetryInit /\ LimiterInit

Next == ConsumeNext

\* Consume alone, with the broker and the caller's context as environment.
SpecConsume == Init /\ [][Next]_vars

\* Any step of Consume itself (not of the broker or of the caller).
ConsumeStep ==
    \/ SelectDone
    \/ SelectDefault
    \/ FetchOk
    \/ FetchErr
    \/ HandleOk
    \/ HandleFail
    \/ CommitOk
    \/ CommitFail

\* The calls Consume makes return: the handler and the commit always, and
\* FetchMessage once its context is done; the select then sees ctx.Done().
ConsumeFairness ==
    /\ WF_vars(SelectDone)
    /\ WF_vars(HandleOk \/ HandleFail)
    /\ WF_vars(CommitOk \/ CommitFail)
    /\ WF_vars(ctxErr /= "nil" /\ (FetchOk \/ FetchErr))

\* Consume with calls that return.
SpecConsumeFair == Init /\ [][Next]_vars /\ ConsumeFairness

\* One Producer used by NumCallers goroutines and one closing goroutine.
SpecPublish == Init /\ [][PublishNext]_vars

\* One Producer whose calls do not overlap.
SpecSequential == Init /\ [][SequentialNext]_vars

\* One Producer whose calls, PublishEvent among them, do not overlap.
SpecEvent == Init /\ [][EventNext]_vars

\* One use of the codec: create and serialize, or receive; parse; extract.
SpecCodec == Init /\ [][CodecNext]_vars

\* One WithRetry call, with fn, the timer and the caller's context as environment.
SpecRetry == Init /\ [][RetryNext]_vars

\* One rate limiter with concurrent requests, its cleanup goroutine and the clock.
SpecRateLimit == Init /\ [][RateLimitNext]_vars

(* ------------------------- properties of Consume ----------------------- *)

Deliveries == 1..cur

\* The iteration of delivery i is over: Consume is past its handler and commit.
IterationDone(i) == i < cur \/ pc \in {"select", "fetch", "returned"}

\* Delivery i is the first delivery of its message, j the one after it.
FirstThenSecond(i, j) ==
    /\ i < j
    /\ deliveries[i].off = deliveries[j].off
    /\ \A h \in Deliveries :
           (h < j /\ h /= i) => deliveries[h].off /= deliveries[i].off

\* C1: a commit of m is issued only after the handler invocation on that
\* same m returned success in the same loop iteration: every delivery that
\* has a commit call has a successful handler return, and Consume stands at
\* the commit only with the current message handled successfully.
CommitOnlyAfterHandlerSuccess ==
    /\ \A i \in Deliveries :
           deliveries[i].commits > 0 => deliveries[i].handler = "ok"
    /\ pc = "commit" =>
           /\ cur > 0
           /\ deliveries[cur].handler = "ok"
           /\ deliveries[cur].off = msg

\* C1 witness: one delivery failed in the handler and has no commit, a later
\* one succeeded and was committed, with the context cancelled on the way.
CommitAfterFailureAndSuccess ==
    /\ ctxErr /= "nil"
    /\ \E i, j \in Deliveries :
           /\ i < j
           /\ deliveries[i].handler = "fail"
           /\ deliveries[i].commits = 0
           /\ deliveries[j].handler = "ok"
           /\ deliveries[j].commits = 1

\* C2 (as claimed): every message below the committed position of the
\* partition has had a handler invocation return success.
AckedImpliesHandled ==
    \A k \in Offsets :
        k < committed =>
            \E i \in Deliveries :
                deliveries[i].off = k /\ deliveries[i].handler = "ok"

\* C7: when the first delivery of a message fails in the handler and its
\* second delivery succeeds, the first delivery has zero commit calls and
\* the second has exactly one once its iteration is over (never more).
FailThenSuccessCommitsOnce ==
    \A i, j \in Deliveries :
        ( /\ FirstThenSecond(i, j)
          /\ deliveries[i].handler = "fail"
          /\ deliveries[j].handler = "ok" )
        => /\ deliveries[i].commits = 0
           /\ deliveries[j].commits <= 1
           /\ IterationDone(j) => deliveries[j].commits = 1

\* C7 witness: a message failed on its first delivery, was delivered again,
\* succeeded, and the iteration of the second delivery is over.
RedeliveredAndCommitted ==
    \E i, j \in Deliveries :
        /\ FirstThenSecond(i, j)
        /\ deliveries[i].handler = "fail"
        /\ deliveries[j].handler = "ok"
        /\ IterationDone(j)
        /\ deliveries[j].commits = 1

\* C8: when the context was cancelled while Consume was in FetchMessage,
\* a returned Consume has returned the cancellation reason ctx.Err(), and
\* once returned it makes no further fetch, handler or commit step.
CancelMidFetchReturnsReason ==
    (pc = "returned" /\ cancelAt = "fetch") =>
        /\ ret = ctxErr
        /\ ret \in CtxReasons
        /\ ~ ENABLED ConsumeStep

\* C8 witness: cancelled in FetchMessage by a deadline, and returned.
ReturnedAfterCancelMidFetch ==
    /\ pc = "returned"
    /\ cancelAt = "fetch"
    /\ ret = "DeadlineExceeded"

\* C15: the handler runs on the messages in the order of their fetches,
\* one at a time: only the latest fetched message can still be in its
\* handler, never while Consume fetches or selects, and a handler outcome
\* or a commit call is only ever added to the latest fetched message, so
\* the committed messages are a subsequence of the fetched ones, in order.
HandledAndCommittedInFetchOrder ==
    /\ [](\A i \in Deliveries :
              deliveries[i].handler = "pending" => (i = cur /\ pc = "handle"))
    /\ [](pc = "handle" =>
              (cur > 0 /\ deliveries[cur].handler = "pending"
                       /\ deliveries[cur].off = msg))
    /\ [][\A i \in Deliveries :
              (i <= Len(deliveries') /\ deliveries'[i] /= deliveries[i]) =>
                  /\ i = cur
                  /\ Len(deliveries') = cur
                  /\ deliveries'[i].off = deliveries[i].off]_vars

\* C15 witness: three messages fetched in offset order, the first and the
\* third handled and committed, the second failed and not committed.
ThreeInOrder ==
    /\ cur = 3
    /\ \A i \in 1..3 : deliveries[i].off = i
    /\ deliveries[1].commits = 1
    /\ deliveries[2].handler = "fail"
    /\ deliveries[3].commits = 1

\* FetchMessage returns an error in this step.
FetchFails == pc = "fetch" /\ pc' /= "fetch" /\ fetchErr' /= "nil"

\* C16: a fetch error with the context not cancelled does not end Consume:
\* no handler or commit call is made, no position moves, and Consume is
\* back at the select on its way to another fetch; Consume has a result
\* only when the context is cancelled.
FetchErrorContinues ==
    /\ [][(FetchFails /\ ctxErr = "nil") =>
              /\ pc' = "select"
              /\ ret' = "none"
              /\ deliveries' = deliveries
              /\ committed' = committed
              /\ fetchPos' = fetchPos]_vars
    /\ [](ret /= "none" => ctxErr /= "nil")

\* C16 witness: after a message was handled a fetch failed with the
\* context live, and Consume is in FetchMessage again.
FetchingAgainAfterError ==
    /\ fetchErr = TransientErr
    /\ ctxErr = "nil"
    /\ pc = "fetch"
    /\ cur >= 1

\* C17: whatever CommitMessages returns, the step that makes the one
\* commit call of an iteration leads to the select with Consume not
\* returned, and no delivery ever gets a second commit call.
CommitFailureContinues ==
    /\ [][(pc = "commit" /\ deliveries' /= deliveries) =>
              /\ pc' = "select"
              /\ ret' = "none"
              /\ Len(deliveries') = cur
              /\ deliveries'[cur].commits = 1]_vars
    /\ [](\A i \in Deliveries : deliveries[i].commits <= 1)

\* C17 witness: the commit of the first message failed (the committed
\* position is still at it) and Consume has fetched the next message.
FetchedAfterFailedCommit ==
    /\ cur = 2
    /\ deliveries[1].handler = "ok"
    /\ deliveries[1].commits = 1
    /\ committed <= deliveries[1].off
    /\ ret = "none"

\* C18: Consume has returned only with the context cancelled, and then
\* with ctx.Err(); returned is terminal; and once the context is cancelled
\* Consume eventually returns.
ReturnsOnlyAndAlwaysOnCancel ==
    /\ [](pc = "returned" => (ctxErr /= "nil" /\ ret = ctxErr))
    /\ [](ctxErr = "nil" => (pc /= "returned" /\ ret = "none"))
    /\ [][pc = "returned" => pc' = "returned"]_vars
    /\ (ctxErr /= "nil") ~> (pc = "returned")

\* C18 witness: Consume returned after a fetch error, a handler failure
\* and a failed commit, cancelled while its handler ran.
ReturnedAfterFailures ==
    /\ pc = "returned"
    /\ cancelAt = "handle"
    /\ \E i, j \in Deliveries :
           /\ deliveries[i].handler = "fail"
           /\ deliveries[j].commits = 1
           /\ committed <= deliveries[j].off

(* ------------------------ properties of the Producer ------------------- *)

\* The writers created so far whose Topic field is t.
CreatedFor(t) == {w \in 1..Len(writerTopic) : writerTopic[w] = t}

\* Goroutine c is in a Publish call that has returned from getWriter, or
\* has returned from one that did.
PastGetWriter(c) ==
    \/ call[c].pc = "send"
    \/ call[c].pc = "idle" /\ call[c].result.kind \in {"nil", "publish"}

\* C3 (as claimed): under concurrent first publishes exactly one writer is
\* ever created for a topic, so none is overwritten or orphaned.
OneWriterCreatedPerTopic ==
    \A t \in Topics : Cardinality(CreatedFor(t)) <= 1

\* C4 (as claimed): no two Producer calls stand at accesses of the writers
\* map at the same time with one of them the insert.
InsertsMutuallyExclusive == ~ ConcurrentMapAccess

\* C5: with Publish calls made one after the other, a topic has at most one
\* writer ever created, exactly one once a Publish to it has gone through
\* getWriter, and every call sends on that one writer, the map's entry.
SequentialPublishesCreateOnce ==
    /\ \A t \in Topics : Cardinality(CreatedFor(t)) <= 1
    /\ \A c \in Callers :
           PastGetWriter(c) => Cardinality(CreatedFor(call[c].topic)) = 1
    /\ \A c \in Callers :
           call[c].pc = "send" =>
               /\ call[c].w = writers[call[c].topic]
               /\ CreatedFor(call[c].topic) = {call[c].w}

\* C5 witness: two Publish calls to "orders" have returned, one with a send
\* failure and one with success, and one writer exists.
TwoPublishesOneWriter ==
    /\ started = 2
    /\ \E c, d \in Callers :
           /\ call[c].pc = "idle" /\ call[c].topic = "orders"
           /\ call[c].result.kind = "publish"
           /\ call[d].pc = "idle" /\ call[d].topic = "orders"
           /\ call[d].result.kind = "nil"
    /\ Len(writerTopic) = 1

\* C6: every entry of the writers map is a created writer whose Topic is
\* the entry's key, no writer is the entry of two topics, and a Publish to
\* topic t sends on a writer whose Topic is t.
WriterBoundToItsTopic ==
    /\ \A t \in Topics :
           writers[t] /= NoWriter =>
               /\ writers[t] \in 1..Len(writerTopic)
               /\ writerTopic[writers[t]] = t
    /\ \A t, u \in Topics :
           (t /= u /\ writers[t] /= NoWriter) => writers[t] /= writers[u]
    /\ \A c \in Callers :
           call[c].pc = "send" =>
               /\ call[c].w \in 1..Len(writerTopic)
               /\ writerTopic[call[c].w] = call[c].topic

\* C6 witness: both topics have an entry and a Publish to "payments" is
\* about to send.
BothTopicsHaveWriters ==
    /\ \A t \in Topics : writers[t] /= NoWriter
    /\ \E c \in Callers : call[c].pc = "send" /\ call[c].topic = "payments"

\* Goroutine c takes the step in which its send fails and Publish returns.
SendFailsAt(c) ==
    /\ call[c].pc = "send"
    /\ call'[c].pc = "idle"
    /\ call'[c].result.kind = "publish"

\* C9: a Publish whose send failed returns an error for its topic that
\* wraps the error of WriteMessages; the failing step leaves the writers
\* map as it was, the topic keeps its entry, and a later lookup of a topic
\* that has an entry takes that entry.
SendFailureKeepsWriter ==
    /\ [](\A c \in Callers :
              (call[c].pc = "idle" /\ call[c].result.kind = "publish") =>
                  /\ call[c].result.topic = call[c].topic
                  /\ call[c].result.cause \in SendErrors \cup {ClosedErr}
                  /\ writers[call[c].topic] /= NoWriter)
    /\ [][\A c \in Callers :
              /\ SendFailsAt(c) => writers' = writers
              /\ ( /\ call[c].pc = "lookup"
                   /\ call'[c] /= call[c]
                   /\ writers[call[c].topic] /= NoWriter )
                 => /\ call'[c].pc = "send"
                    /\ call'[c].w = writers[call[c].topic]
                    /\ writerTopic' = writerTopic]_vars

\* C9 witness: a Publish to "orders" failed with a broker acknowledgment
\* error, and the next Publish to "orders" is sending on the one writer.
FailedThenReused ==
    /\ Len(writerTopic) = 1
    /\ \E c, d \in Callers :
           /\ call[c].pc = "idle" /\ call[c].topic = "orders"
           /\ call[c].result = PublishError("orders", "ack")
           /\ call[d].pc = "send" /\ call[d].topic = "orders"
           /\ call[d].w = writers["orders"]

\* C10: a Publish call makes at most one WriteMessages call: none before
\* the send, and exactly one when it has returned nil or a publish error,
\* which it returns right after that one attempt.
PublishSendsOnce ==
    \A c \in Callers :
        /\ call[c].attempts <= 1
        /\ call[c].pc \in {"lookup", "construct", "insert", "send"} =>
               call[c].attempts = 0
        /\ call[c].result.kind \in {"nil", "publish"} =>
               /\ call[c].pc = "idle"
               /\ call[c].attempts = 1
        /\ call[c].result.kind = "marshal" => call[c].attempts = 0

\* C10 witness: a Publish returned a transport error after one attempt.
FailedAfterOneAttempt ==
    \E c \in Callers :
        /\ call[c].pc = "idle"
        /\ call[c].attempts = 1
        /\ call[c].result.kind = "publish"
        /\ call[c].result.cause = "transport"

\* C11: a returned Close has returned nil, whatever closes failed, and
\* has called Close() on the writer of every topic that had an entry when
\* it started, the topics whose close failed among them.
CloseIsBestEffort ==
    closer.pc = "returned" =>
        /\ closer.result = "nil"
        /\ closer.startKeys \subseteq closer.visited
        /\ closer.failed \subseteq closer.visited
        /\ \A t \in closer.startKeys :
               \E w \in closedW : writerTopic[w] = t

\* C11 witness: Close returned after closing the writers of both topics,
\* one close failing and one succeeding.
ClosedBothOneFailed ==
    /\ closer.pc = "returned"
    /\ closer.startKeys = Topics
    /\ closer.visited = Topics
    /\ closer.failed = {"orders"}

\* Goroutine c is inside Publish.
InPublish(c) == call[c].pc \in {"lookup", "construct", "insert", "send"}

\* C14: every step that is a PublishEvent(topic, event) call is the step of
\* the Publish(topic, event.ID, event) call, with the same effect on the
\* Producer and the same outcome, and the key of the call, the event's id,
\* stays what it is until the message is sent.
PublishEventIsPublish ==
    [][/\ \A c \in Callers, t \in Topics, e \in Events, marshals \in BOOLEAN :
              PublishEventCall(c, t, e, marshals) =>
                  /\ PublishCall(c, t, e.ID, marshals)
                  /\ marshals => call'[c].key = e.ID
       /\ \A c \in Callers :
              (InPublish(c) /\ InPublish(c)') => call'[c].key = call[c].key]_vars

\* C14 witness: a call made through PublishEvent with the event "id-2" is
\* about to send, its key the event's id, on an entry an earlier call made.
EventKeyedById ==
    \E c \in Callers :
        /\ call[c].pc = "send"
        /\ call[c].key = "id-2"
        /\ started = 2

(* ------------------------- properties of the codec --------------------- *)

\* The document is a JSON object that lacks a required envelope member.
LacksRequired(doc) ==
    /\ doc.syntax = "ok"
    /\ \/ doc.id = Absent
       \/ doc.source = Absent
       \/ doc.type = Absent
       \/ doc.time = Absent
       \/ doc.datacontenttype = Absent
       \/ doc.data = Absent

\* C12 (as claimed): parsing a document that lacks a required envelope
\* member fails with a decode error and returns the empty envelope.
MissingFieldFailsParse ==
    (codec.stage \in {"parsed", "extracted"} /\ LacksRequired(codec.wire)) =>
        /\ codec.parsed.err /= "nil"
        /\ codec.parsed.event = ZeroEvent

\* The codec parsed (and extracted from) an event it created itself.
OwnEvent == codec.err = "nil" /\ codec.stage \in {"parsed", "extracted"}

\* ParseData was called with a target of the data's own shape.
ExtractedOwnShape == codec.stage = "extracted" /\ codec.shape = codec.data.t

\* Source, type and the strings of data are valid UTF-8.
ValidUtf8Inputs ==
    /\ codec.source /= BadUtf8
    /\ codec.type /= BadUtf8
    /\ codec.data.v /= BadUtf8

\* The round trip: the parse succeeds with the original source, type and
\* id and the payload bytes as NewCloudEvent wrote them, and ParseData into
\* the data's shape gives the data back.
RoundTrips ==
    /\ codec.parsed.err = "nil"
    /\ codec.parsed.event.Source = codec.source
    /\ codec.parsed.event.Type = codec.type
    /\ codec.parsed.event.ID = codec.event.ID
    /\ codec.parsed.event.Data = codec.event.Data
    /\ ExtractedOwnShape =>
           /\ codec.out.err = "nil"
           /\ codec.out.val = codec.data

\* C13 (as claimed): the round trip holds for all encodable inputs.
RoundTripAllEncodable == OwnEvent => RoundTrips

\* C13 (amended): the round trip holds for all encodable inputs whose
\* source, type and data strings are valid UTF-8; for every encodable
\* input the parse succeeds with the same id and the same payload bytes.
RoundTripValidUtf8 ==
    OwnEvent =>
        /\ codec.parsed.err = "nil"
        /\ codec.parsed.event.ID = codec.event.ID
        /\ codec.parsed.event.Data = codec.event.Data
        /\ ValidUtf8Inputs => RoundTrips

\* C13 witness: the scenario of the specification, the map
\* {"orderId":"123"} from "order-service", extracted into a map.
OrderCreatedRoundTrip ==
    /\ OwnEvent
    /\ ExtractedOwnShape
    /\ codec.source = "order-service"
    /\ codec.type = "order.created"
    /\ codec.data = GoVal("map", "orderId=123")
    /\ codec.out.val = GoVal("map", "orderId=123")

(* ------------------------- properties of WithRetry --------------------- *)

Invocations == 1..Len(retry.results)

\* C19: fn is invoked at most MaxRetries+1 times; only the last invocation
\* can have succeeded, and then WithRetry has returned nil; when all
\* MaxRetries+1 invocations failed it has returned the error of the last;
\* and after a cancellation during the backoff wait fn is not invoked
\* again and WithRetry returns ctx.Err().
RetryStopsAndReports ==
    /\ [](Len(retry.results) <= Max(0, retry.config.MaxRetries + 1))
    /\ [](\A i \in Invocations :
              retry.results[i] = "ok" =>
                  /\ i = Len(retry.results)
                  /\ retry.pc = "returned"
                  /\ retry.ret = "nil")
    /\ []((/\ Len(retry.results) >= 1
           /\ Len(retry.results) = retry.config.MaxRetries + 1
           /\ retry.results[Len(retry.results)] /= "ok") =>
              /\ retry.pc = "returned"
              /\ retry.ret = retry.results[Len(retry.results)])
    /\ []((retry.cancelAt = "waiting" /\ retry.pc = "returned") =>
              retry.ret = retry.ctxErr)
    /\ [][retry.cancelAt = "waiting" =>
              /\ retry'.results = retry.results
              /\ retry'.pc \in {"backoff", "returned"}]_vars

\* C19 witness: with MaxRetries = 2, fn failed twice with different
\* errors, the context was cancelled during the second backoff wait and
\* WithRetry returned the cancellation reason.
CancelledInSecondBackoff ==
    /\ retry.pc = "returned"
    /\ retry.config.MaxRetries = 2
    /\ retry.results = <<"e1", "e2">>
    /\ retry.cancelAt = "waiting"
    /\ retry.ret = "Canceled"

(* -------------------- properties of RateLimitMiddleware ---------------- *)

\* The requests i..j served for ip form a run: no gap between consecutive
\* ones exceeds the window.
IsRun(ip, i, j) ==
    \A k \in i..(j - 1) :
        limiter.history[ip][k + 1].at - limiter.history[ip][k].at <= limiter.window

PassedIn(ip, i, j) == Cardinality({k \in i..j : limiter.history[ip][k].passed})

RunsWithinLimit ==
    \A ip \in IPs : \A i, j \in 1..Len(limiter.history[ip]) :
        (i <= j /\ IsRun(ip, i, j)) => PassedIn(ip, i, j) <= limiter.maxRequests

\* C20: for each client IP, in any run of requests in which no gap between
\* consecutive requests exceeds the window, at most maxRequests requests
\* are passed on and the others are aborted, under every interleaving of
\* requests and the cleanup goroutine.
RateLimitPerIP == limiter.started => RunsWithinLimit

\* With maxRequests >= 1 the limit holds in every run.
PositiveLimitHolds == (limiter.started /\ limiter.maxRequests >= 1) => RunsWithinLimit

(* --------------------- properties of a failed marshal ------------------ *)

\* Caller c calls Publish with a payload json.Marshal rejects.
MarshalFails(c) == \E t \in Topics, k \in Keys : PublishCall(c, t, k, FALSE)

\* C21: when serializing the payload fails, Publish returns the error
\* wrapping the serialization error and has no other effect: the writers
\* map and the set of constructed writers are unchanged, the call is over
\* and it has made no WriteMessages call.
MarshalFailureHasNoEffect ==
    /\ [][\A c \in Callers :
              MarshalFails(c) =>
                  /\ call'[c].pc = "idle"
                  /\ call'[c].result = MarshalError
                  /\ call'[c].attempts = 0
                  /\ writers' = writers
                  /\ writerTopic' = writerTopic
                  /\ closedW' = closedW]_vars
    /\ [](\A c \in Callers :
              call[c].result = MarshalError =>
                  call[c].pc = "idle" /\ call[c].attempts = 0)

\* C21 witness: a Publish to payments has returned the marshal error
\* while the map holds a writer for orders only.
MarshalFailedBesideWriter ==
    \E c \in Callers :
        /\ call[c].result = MarshalError
        /\ call[c].topic = "payments"
        /\ writers["payments"] = NoWriter
        /\ writers["orders"] /= NoWriter

(* -------------------- WithRetry: the meaning of nil -------------------- *)

\* C22: WithRetry returns nil only if fn was invoked at least once and its
\* last invocation returned nil, for every RetryConfig, MaxRetries = 0 and
\* negative MaxRetries included.
NilOnlyAfterSuccess ==
    (retry.pc = "returned" /\ retry.ret = "nil") =>
        /\ Len(retry.results) >= 1
        /\ retry.results[Len(retry.results)] = "ok"

====
